---- MODULE Spec2Model ----
(***************************************************************************)
(* A model of avdoc: a run of the command line tool, from reading the      *)
(* schema file to printing the HTML document, by the package               *)
(* (src/avdoc/__main__.py) or by the older script (src/avdoc.py).          *)
(*                                                                         *)
(* Values.  A JSON / Python value is a record tagged by `py`; the DOM that *)
(* dominate builds is a tree of records: a tag [tag, attrs, children], a   *)
(* text node [text], a raw node [raw]; a raised exception is [exc, arg].   *)
(* The rendered document is the sequence of its tokens (open tags, text,   *)
(* close tags); dominate's indentation and line breaks are not modelled.   *)
(***************************************************************************)
EXTENDS Integers, Sequences, FiniteSets, TLC

VARIABLES
    pc,        \* position of main(): "read" "parse" "edges" "graph" "html" "print" "done" "aborted"
    run,       \* the input of the run: the schema file, the options, the layout engine
    contents,  \* avsc_contents, the text read from the file
    names,     \* the Named Type Table: names.names, an ordered mapping
    edges,     \* the local `edges` of draw_graph
    graph,     \* the pygraphviz graph G: [nodes, edges]
    svg,       \* dependency_graph_svg
    document,  \* the dominate document built by generate_html
    html,      \* document.render(), what avdoc returns
    stdout,    \* what was printed
    error,     \* the exception that ended the run, or NoError
    earlier    \* the earlier invocations: what each was given, printed and raised

vars ==
    <<pc, run, contents, names, edges, graph, svg, document, html, stdout, error, earlier>>

(***************************************************************************)
(* Bounds of the model                                                     *)
(***************************************************************************)
\* a field type of the rich family has at most MaxNodes constructor nodes
MaxNodes == 4
\* the records of a table of the table family hold at most MaxFields fields in all
MaxFields == 2
\* the tool is invoked at most MaxInvocations times on the same input
MaxInvocations == 2

(***************************************************************************)
(* Python and JSON values                                                  *)
(***************************************************************************)
Absent == [py |-> "absent"]            \* the key is not in the JSON object
None == [py |-> "None"]                \* JSON null, Python None
JStr(s) == [py |-> "str", s |-> s]
JInt(n) == [py |-> "int", n |-> n]
JBool(b) == [py |-> "bool", b |-> b]
JDict(k, v) == [py |-> "dict", key |-> k, value |-> v]   \* a one-key JSON object

\* Python truthiness, as in `x if x else y` and `if x:` and `x or y`
Truthy(v) ==
    CASE v.py = "absent" -> FALSE
      [] v.py = "None" -> FALSE
      [] v.py = "str" -> v.s # ""
      [] v.py = "int" -> v.n # 0
      [] v.py = "bool" -> v.b
      [] OTHER -> TRUE

\* str() of the numbers of the model
py_str(v) ==
    CASE v.py = "int" -> (CASE v.n = 0 -> "0" [] v.n = 1 -> "1" [] v.n = 16 -> "16" [] OTHER -> "n")
      [] v.py = "bool" -> (IF v.b THEN "True" ELSE "False")
      [] v.py = "str" -> v.s
      [] OTHER -> ""

(***************************************************************************)
(* Declared (JSON) types and the schema objects the avro library makes     *)
(***************************************************************************)
DPrim(t) == [json |-> "prim", type |-> t]
DAnnotated(t, lt) == [json |-> "annotated", type |-> t, logicalType |-> lt]
DRef(n) == [json |-> "name", name |-> n]
DArray(i) == [json |-> "array", items |-> i]
DMap(v) == [json |-> "map", values |-> v]
DUnion(s) == [json |-> "union", schemas |-> s]
\* a fixed type declared where it is used: {"type": "fixed", "name": ..., "size": ...}
\* with an optional "logicalType" (and the "precision" a decimal needs)
DFixed(ns, n, size) == [type |-> "fixed", namespace |-> ns, name |-> n, size |-> size]
DFixedLogical(ns, n, size, lt) ==
    [type |-> "fixed", namespace |-> ns, name |-> n, size |-> size, logicalType |-> lt,
     precision |-> 4]
DInline(decl) == [json |-> "fixed", decl |-> decl]

\* avro.name.Name.fullname: the namespace, a dot, the name
Fullname(ns, n) == IF ns = "" THEN n ELSE ns \o "." \o n

PrimitiveSchema(t) == [cls |-> "PrimitiveSchema", type |-> t]
LogicalSchema(t, lt) == [cls |-> "LogicalSchema", type |-> t, logical_type |-> lt]
NamedRef(n) == [cls |-> "NamedSchema", fullname |-> n]
ArraySchema(i) == [cls |-> "ArraySchema", type |-> "array", items |-> i]
MapSchema(v) == [cls |-> "MapSchema", type |-> "map", values |-> v]
UnionSchema(s) == [cls |-> "UnionSchema", type |-> "union", schemas |-> s]

\* the classes of avro.schema an object of the class c is an instance of: a
\* FixedDecimalSchema is a FixedSchema, hence a NamedSchema, and a
\* DecimalLogicalSchema, hence a LogicalSchema
Bases(c) ==
    CASE c = "FixedDecimalSchema" ->
            {"FixedDecimalSchema", "FixedSchema", "NamedSchema", "LogicalSchema", "Schema"}
      [] c \in {"RecordSchema", "EnumSchema", "FixedSchema"} -> {c, "NamedSchema", "Schema"}
      [] OTHER -> {c, "Schema"}
isinstance(s, c) == c \in Bases(s.cls)

\* the object made of a fixed declaration: a FixedDecimalSchema for the logical
\* type "decimal", a FixedSchema otherwise (any other logical type of a fixed
\* is ignored with a warning); neither has a doc attribute
FixedSchema(d) ==
    IF "logicalType" \in DOMAIN d /\ d.logicalType = "decimal"
    THEN [cls |-> "FixedDecimalSchema", type |-> "fixed",
          fullname |-> Fullname(d.namespace, d.name), doc |-> None,
          size |-> d.size, logical_type |-> "decimal"]
    ELSE [cls |-> "FixedSchema", type |-> "fixed",
          fullname |-> Fullname(d.namespace, d.name), doc |-> None,
          size |-> d.size]

\* the (logical type, literal type) pairs for which the avro library builds a
\* LogicalSchema; every other annotation is ignored with a warning and the
\* literal type is used
KnownLogical ==
    { <<"date", "int">>, <<"decimal", "bytes">>, <<"timestamp-micros", "long">>,
      <<"timestamp-millis", "long">>, <<"time-micros", "long">>,
      <<"time-millis", "int">>, <<"uuid", "string">> }

RECURSIVE make_avsc_object(_)
make_avsc_object(d) ==
    CASE d.json = "prim" -> PrimitiveSchema(d.type)
      [] d.json = "annotated" ->
            IF <<d.logicalType, d.type>> \in KnownLogical
            THEN LogicalSchema(d.type, d.logicalType)
            ELSE PrimitiveSchema(d.type)
      \* a name stands for the object of the table; the types the schemas of the
      \* model refer to by name are records, enums and fixed types without a
      \* logical type
      [] d.json = "name" -> NamedRef(d.name)
      [] d.json = "fixed" -> FixedSchema(d.decl)
      [] d.json = "array" -> ArraySchema(make_avsc_object(d.items))
      [] d.json = "map" -> MapSchema(make_avsc_object(d.values))
      [] d.json = "union" ->
            UnionSchema([i \in 1..Len(d.schemas) |-> make_avsc_object(d.schemas[i])])


(***************************************************************************)
(* Declared named types and the Named Type Table                           *)
(***************************************************************************)
\* a field of a record declaration: "doc" and "default" may be Absent
DField(n, doc, t, default) == [name |-> n, doc |-> doc, type |-> t, default |-> default]
DRecord(ns, n, doc, fs) ==
    [type |-> "record", namespace |-> ns, name |-> n, doc |-> doc, fields |-> fs]
DEnum(ns, n, doc, syms) ==
    [type |-> "enum", namespace |-> ns, name |-> n, doc |-> doc, symbols |-> syms]

\* a missing "doc" key and a null doc both read as None
DocOf(d) == IF d.py = "absent" THEN None ELSE d

\* avro.schema.Field: has_default tells a missing "default" from a null one
Field(f) ==
    [name |-> f.name, doc |-> DocOf(f.doc), type |-> make_avsc_object(f.type),
     has_default |-> f.default.py # "absent",
     default |-> IF f.default.py = "absent" THEN None ELSE f.default]

NamedSchema(d) ==
    CASE d.type = "record" ->
            [cls |-> "RecordSchema", type |-> "record",
             fullname |-> Fullname(d.namespace, d.name), doc |-> DocOf(d.doc),
             fields |-> [i \in 1..Len(d.fields) |-> Field(d.fields[i])]]
      [] d.type = "enum" ->
            [cls |-> "EnumSchema", type |-> "enum",
             fullname |-> Fullname(d.namespace, d.name), doc |-> DocOf(d.doc),
             symbols |-> d.symbols]
      [] d.type = "fixed" -> FixedSchema(d)

RECURSIVE Concat(_)
Concat(ss) == IF ss = <<>> THEN <<>> ELSE Head(ss) \o Concat(Tail(ss))

\* the named types declared inside a field type, in the order they are met
RECURSIVE InlineNamed(_)
InlineNamed(d) ==
    CASE d.json = "fixed" -> <<FixedSchema(d.decl)>>
      [] d.json = "array" -> InlineNamed(d.items)
      [] d.json = "map" -> InlineNamed(d.values)
      [] d.json = "union" -> Concat([i \in 1..Len(d.schemas) |-> InlineNamed(d.schemas[i])])
      [] OTHER -> <<>>

\* names.names after make_avsc_object: one entry per declared named type, in
\* the order the declarations are met (an ordered dict keyed by fullname); a
\* record is entered before the types its fields declare
Names(decls) ==
    Concat([i \in 1..Len(decls) |->
               <<NamedSchema(decls[i])>> \o
               (IF decls[i].type = "record"
                THEN Concat([f \in 1..Len(decls[i].fields) |->
                                InlineNamed(decls[i].fields[f].type)])
                ELSE <<>>)])

\* names.names.keys()
Keys(table) == [i \in 1..Len(table) |-> table[i].fullname]

(***************************************************************************)
(* The DOM of dominate                                                     *)
(***************************************************************************)
NoAttrs == <<>>
Raise(cls, arg) == [exc |-> cls, arg |-> arg]
IsExc(x) == "exc" \in DOMAIN x
IsTag(x) == "tag" \in DOMAIN x

\* dominate.util.escape, on the strings of the model: only the file name
\* "a&b.avsc", the page title made of it and the default "<b>" hold a character
\* that HTML escapes
escape(s) ==
    CASE s = "a&b.avsc" -> "a&amp;b.avsc"
      [] s = "a&b.avsc (avdoc)" -> "a&amp;b.avsc (avdoc)"
      [] s = "a&b.avsc (Avrodoc)" -> "a&amp;b.avsc (Avrodoc)"
      [] s = "<b>" -> "&lt;b&gt;"
      [] OTHER -> s

Text(s) == [text |-> escape(s)]
Raw(s) == [raw |-> s]

\* the first exception met while the children are built, in order
RECURSIVE FirstExc(_)
FirstExc(ch) ==
    IF ch = <<>> THEN <<>>
    ELSE IF IsExc(Head(ch)) THEN <<Head(ch)>> ELSE FirstExc(Tail(ch))

\* a tag with its attributes and children; building it raises what building a
\* child raised
Tag(t, attrs, ch) ==
    IF FirstExc(ch) # <<>> THEN FirstExc(ch)[1]
    ELSE [tag |-> t, attrs |-> attrs, children |-> ch]

\* dom_tag.add(obj) for the one positional argument of td(...): a number is
\* str()-ed, a string is escaped text, a tag is a child, a dict sets attributes
TagOf(t, obj) ==
    IF "py" \notin DOMAIN obj THEN Tag(t, NoAttrs, <<obj>>)
    ELSE CASE obj.py \in {"int", "bool", "str"} -> Tag(t, NoAttrs, <<Text(py_str(obj))>>)
           [] obj.py = "dict" -> Tag(t, <<<<obj.key, obj.value>>>>, <<>>)
           [] OTHER -> Raise("ValueError", "not a tag or string")

\* the block tokens mistune's parser makes of the doc strings of the model:
\* blank text gives no token; a link reference definition goes to the table of
\* references and gives no token; "# " opens a heading; text between blank
\* lines is a paragraph
markdown_blocks(s) ==
    CASE s \in {"", " "} -> <<>>
      [] s = "[a]: http://x" -> <<>>
      [] s = "# Title" -> <<[type |-> "heading", level |-> "1", text |-> "Title"]>>
      [] s = "One.\n\nTwo." ->
            <<[type |-> "paragraph", text |-> "One."], [type |-> "paragraph", text |-> "Two."]>>
      [] OTHER -> <<[type |-> "paragraph", text |-> s]>>

\* HTMLRenderer: a heading and a paragraph, each ended by a line break
render_block(tok) ==
    IF tok.type = "heading"
    THEN "<h" \o tok.level \o ">" \o tok.text \o "</h" \o tok.level \o ">\n"
    ELSE "<p>" \o tok.text \o "</p>\n"

\* mistune.html(s): the rendered tokens, one after the other; nothing at all
\* for a text without a token
RECURSIVE render_blocks(_)
render_blocks(toks) ==
    IF toks = <<>> THEN "" ELSE render_block(Head(toks)) \o render_blocks(Tail(toks))
mistune_html(s) == render_blocks(markdown_blocks(s))

SpecificationUrls ==
    [n \in {"decimal", "uuid", "date", "time-millis", "time-micros",
            "timestamp-millis", "timestamp-micros", "local-timestamp-millis",
            "local-timestamp-micros", "duration", "record", "enum", "array",
            "map", "union", "fixed"} |->
        "https://avro.apache.org/docs/1.11.1/specification/#" \o
        (CASE n = "time-millis" -> "time-millisecond-precision"
           [] n = "time-micros" -> "time-microsecond-precision"
           [] n = "timestamp-millis" -> "timestamp-millisecond-precision"
           [] n = "timestamp-micros" -> "timestamp-microsecond-precision"
           [] n = "local-timestamp-millis" -> "local-timestamp-millisecond-precision"
           [] n = "local-timestamp-micros" -> "local-timestamp-microsecond-precision"
           [] n = "record" -> "schema-record"
           [] n = "enum" -> "enums"
           [] n = "array" -> "arrays"
           [] n = "map" -> "maps"
           [] n = "union" -> "unions"
           [] OTHER -> n)]

\* the dict lookup: a KeyError for a name that is not a key
avro_type_specification_url(logical_type_name) ==
    IF logical_type_name \in DOMAIN SpecificationUrls
    THEN JStr(SpecificationUrls[logical_type_name])
    ELSE Raise("KeyError", logical_type_name)

\* a(text, href=href); href is a string value or the exception its lookup raised
A(t, href) ==
    IF IsExc(href) THEN href ELSE Tag("a", <<<<"href", href.s>>>>, <<Text(t)>>)

\* the separator before every branch, the first one too
RECURSIVE UnionChildrenLeading(_, _)
UnionChildrenLeading(rendered, i) ==
    IF i > Len(rendered) THEN <<>>
    ELSE <<[text |-> "|"], rendered[i]>> \o UnionChildrenLeading(rendered, i + 1)

\* the children of the union span after "[": the branches, "|" before every
\* branch but the first
RECURSIVE UnionChildren(_, _)
UnionChildren(rendered, i) ==
    IF i > Len(rendered) THEN <<>>
    ELSE (IF i # 1 THEN <<Text("|")>> ELSE <<>>) \o <<rendered[i]>>
         \o UnionChildren(rendered, i + 1)

\* the LogicalSchema case tried before the NamedSchema case
RECURSIVE field_type_html_logical_first(_)
field_type_html_logical_first(field_schema) ==
    LET type_span(ch) == Tag("span", <<<<"class", "type">>>>, ch) IN
    IF isinstance(field_schema, "LogicalSchema")
    THEN type_span(<<A(field_schema.logical_type,
                       avro_type_specification_url(field_schema.logical_type))>>)
    ELSE
    CASE isinstance(field_schema, "NamedSchema") ->
            type_span(<<A(field_schema.fullname, JStr("#" \o field_schema.fullname))>>)
      [] field_schema.cls = "ArraySchema" ->
            type_span(<<A("array", avro_type_specification_url("array")), Text("["),
                        field_type_html_logical_first(field_schema.items), Text("]")>>)
      [] field_schema.cls = "UnionSchema" ->
            type_span(<<A("union", avro_type_specification_url("union")), Text("[")>>
                      \o UnionChildren([i \in 1..Len(field_schema.schemas) |->
                                            field_type_html_logical_first(field_schema.schemas[i])], 1)
                      \o <<Text("]")>>)
      [] OTHER -> type_span(<<Text(field_schema.type)>>)

\* the cases of the match statement are tried in the order they are written
RECURSIVE field_type_html(_)
field_type_html(field_schema) ==
    LET type_span(ch) == Tag("span", <<<<"class", "type">>>>, ch) IN
    IF isinstance(field_schema, "NamedSchema")
    THEN type_span(<<A(field_schema.fullname, JStr("#" \o field_schema.fullname))>>)
    ELSE
    CASE field_schema.cls = "ArraySchema" ->
            type_span(<<A("array", avro_type_specification_url("array")), Text("["),
                        field_type_html(field_schema.items), Text("]")>>)
      [] field_schema.cls = "UnionSchema" ->
            type_span(<<A("union", avro_type_specification_url("union")), Text("[")>>
                      \o UnionChildren([i \in 1..Len(field_schema.schemas) |->
                                            field_type_html(field_schema.schemas[i])], 1)
                      \o <<Text("]")>>)
      [] isinstance(field_schema, "LogicalSchema") ->
            type_span(<<A(field_schema.logical_type,
                          avro_type_specification_url(field_schema.logical_type))>>)
      [] OTHER -> type_span(<<Text(field_schema.type)>>)

\* the placeholder for a doc that is None only
docstring_html_not_none(doc) ==
    IF doc.py = "str" THEN Raw(mistune_html(doc.s))
    ELSE Tag("i", NoAttrs, <<Text("missing")>>)

\* raw(mistune.html(doc)) if doc else i("missing")
docstring_html(doc) ==
    IF Truthy(doc) THEN Raw(mistune_html(doc.s))
    ELSE Tag("i", NoAttrs, <<Text("missing")>>)

\* (samp("null") if field.default is None else field.default) if field.has_default else ""
field_default(field) ==
    IF field.has_default
    THEN (IF field.default = None THEN Tag("samp", NoAttrs, <<Text("null")>>)
          ELSE field.default)
    ELSE JStr("")

field_html(field, schema_name) ==
    LET field_id == schema_name \o "." \o field.name IN
    Tag("tr", NoAttrs,
        << Tag("th", <<<<"scope", "row">>>>,
               <<Tag("a", <<<<"class", "fieldname">>, <<"href", "#" \o field_id>>,
                            <<"id", field_id>>>>, <<Text(field.name)>>)>>),
           TagOf("td", docstring_html(field.doc)),
           TagOf("td", field_type_html(field.type)),
           TagOf("td", field_default(field)) >>)

table_head ==
    Tag("thead", NoAttrs,
        <<Tag("tr", NoAttrs,
              << Tag("th", NoAttrs, <<Text("name")>>), Tag("th", NoAttrs, <<Text("doc")>>),
                 Tag("th", NoAttrs, <<Text("type")>>),
                 Tag("th", NoAttrs, <<Text("default")>>) >>)>>)

named_schema_html(schema) ==
    LET head ==
            << Tag("h2", NoAttrs,
                   << A(schema.fullname, JStr("#" \o schema.fullname)),
                      Tag("small", NoAttrs,
                          <<A(schema.type, avro_type_specification_url(schema.type))>>) >>),
               Tag("h3", NoAttrs, <<Text("doc")>>),
               Tag("p", <<<<"class", "docstring">>>>, <<docstring_html(schema.doc)>>) >>
        body ==
            CASE schema.cls = "EnumSchema" ->
                    <<Tag("ul", NoAttrs,
                          <<Text("One of:")>> \o
                          [i \in 1..Len(schema.symbols) |->
                              Tag("li", NoAttrs,
                                  <<Tag("samp", NoAttrs, <<Text(schema.symbols[i])>>)>>)])>>
              [] schema.cls = "RecordSchema" ->
                    << Tag("h3", NoAttrs, <<Text("fields")>>),
                       Tag("table", <<<<"class", ".fullbleed">>>>,
                           <<table_head>> \o
                           [i \in 1..Len(schema.fields) |->
                               field_html(schema.fields[i], schema.fullname)] \o
                           <<table_head>>) >>
              [] isinstance(schema, "FixedSchema") ->
                    <<Tag("p", NoAttrs,
                          <<Text("Fixed type " \o py_str(JInt(schema.size))
                                 \o " bytes in size.")>>)>>
              [] OTHER -> <<>>
    IN Tag("section", <<<<"class", "schema">>, <<"id", schema.fullname>>>>, head \o body)

(***************************************************************************)
(* generate_html and document.render()                                     *)
(***************************************************************************)
\* the package's __version__, shown in the credits
AvdocVersion == "0.0.1"

\* the readings of the clock: now.strftime("%c") and now.isoformat()
Times ==
    { [c |-> "Fri Oct 30 11:00:00 2026", iso |-> "2026-10-30T11:00:00+00:00"],
      [c |-> "Fri Oct 30 11:00:01 2026", iso |-> "2026-10-30T11:00:01+00:00"] }

\* `x or y` on a string option
Or(x, y) == IF Truthy(x) THEN x.s ELSE y

\* the version entry for every version that is not None
footer_html_not_none(schema_filename, schema_version, now) ==
    Tag("footer", NoAttrs,
        << Tag("p", <<<<"id", "schema-filename">>>>,
               <<Text("Schema filename: "), Tag("code", NoAttrs, <<Text(schema_filename)>>)>>) >>
        \o (IF schema_version.py = "str"
            THEN << Tag("p", <<<<"id", "schema-version">>>>,
                        << Text("Schema version: "),
                           Tag("code", NoAttrs, <<Text(schema_version.s)>>) >>) >>
            ELSE <<>>)
        \o << Tag("p", <<<<"id", "generation-time">>>>,
                  << Text("⏲ "),
                     Tag("time", <<<<"datetime", now.iso>>>>, <<Text(now.c)>>) >>),
              Tag("p", <<<<"id", "credits">>>>,
                  << Text("⚒ generated by "),
                     Tag("a", <<<<"href", "https://pypi.org/project/avdoc/">>>>,
                         <<Text("avdoc")>>),
                     Text(" version " \o AvdocVersion \o " "),
                     Text("© Ben Jeffrey 2023. Released under the "),
                     Tag("a", <<<<"href", "https://www.gnu.org/licenses/agpl-3.0.html">>>>,
                         <<Text("AGPL")>>),
                     Text(".") >>) >>)

\* the version entry showing the generation time when no version is given
footer_html_time_as_version(schema_filename, schema_version, now) ==
    Tag("footer", NoAttrs,
        << Tag("p", <<<<"id", "schema-filename">>>>,
               <<Text("Schema filename: "), Tag("code", NoAttrs, <<Text(schema_filename)>>)>>),
           Tag("p", <<<<"id", "schema-version">>>>,
               << Text("Schema version: "),
                  Tag("code", NoAttrs, <<Text(Or(schema_version, now.iso))>>) >>),
           Tag("p", <<<<"id", "generation-time">>>>,
               << Text("⏲ "),
                  Tag("time", <<<<"datetime", now.iso>>>>, <<Text(now.c)>>) >>),
           Tag("p", <<<<"id", "credits">>>>,
               << Text("⚒ generated by "),
                  Tag("a", <<<<"href", "https://pypi.org/project/avdoc/">>>>,
                      <<Text("avdoc")>>),
                  Text(" version " \o AvdocVersion \o " "),
                  Text("© Ben Jeffrey 2023. Released under the "),
                  Tag("a", <<<<"href", "https://www.gnu.org/licenses/agpl-3.0.html">>>>,
                      <<Text("AGPL")>>),
                  Text(".") >>) >>)

footer_html(schema_filename, schema_version, now) ==
    Tag("footer", NoAttrs,
        << Tag("p", <<<<"id", "schema-filename">>>>,
               <<Text("Schema filename: "), Tag("code", NoAttrs, <<Text(schema_filename)>>)>>) >>
        \o (IF Truthy(schema_version)
            THEN << Tag("p", <<<<"id", "schema-version">>>>,
                        << Text("Schema version: "),
                           Tag("code", NoAttrs, <<Text(schema_version.s)>>) >>) >>
            ELSE <<>>)
        \o << Tag("p", <<<<"id", "generation-time">>>>,
                  << Text("⏲ "),
                     Tag("time", <<<<"datetime", now.iso>>>>, <<Text(now.c)>>) >>),
              Tag("p", <<<<"id", "credits">>>>,
                  << Text("⚒ generated by "),
                     Tag("a", <<<<"href", "https://pypi.org/project/avdoc/">>>>,
                         <<Text("avdoc")>>),
                     Text(" version " \o AvdocVersion \o " "),
                     Text("© Ben Jeffrey 2023. Released under the "),
                     Tag("a", <<<<"href", "https://www.gnu.org/licenses/agpl-3.0.html">>>>,
                         <<Text("AGPL")>>),
                     Text(".") >>) >>)

\* the sections in reverse table order
sections_html_reversed(table) ==
    [i \in 1..Len(table) |-> named_schema_html(table[Len(table) + 1 - i])]

\* for name, schema in names.names.items(): named_schema_html(schema)
sections_html(table) == [i \in 1..Len(table) |-> named_schema_html(table[i])]

\* the dominate document: [doctype, root]; raises what a section raised
generate_html(table, dependency_graph_svg, schema_filename, schema_title, schema_version, now) ==
    LET page_title == Or(schema_title, schema_filename) \o " (avdoc)"
        head ==
            Tag("head", NoAttrs,
                << Tag("title", NoAttrs, <<Text(page_title)>>),
                   Tag("meta", <<<<"charset", "utf-8">>>>, <<>>),
                   Tag("meta", << <<"content", "width=device-width, initial-scale=1.0">>,
                                  <<"name", "viewport">> >>, <<>>),
                   Tag("link", << <<"href", "https://unpkg.com/missing.css@1.0.9/dist/missing.min.css">>,
                                  <<"rel", "stylesheet">> >>, <<>>),
                   Tag("style", NoAttrs, <<Raw(":root { --line-length: 80rem; } ...")>>) >>)
        main ==
            Tag("main", NoAttrs,
                << Tag("header", NoAttrs,
                       <<Tag("h1", NoAttrs, <<Text(Or(schema_title, page_title))>>)>>),
                   Tag("figure", NoAttrs,
                       << Tag("figcaption", NoAttrs, <<Text("reference graph")>>),
                          Raw(dependency_graph_svg) >>) >>
                \o sections_html(table)
                \o <<footer_html(schema_filename, schema_version, now)>>)
        root == Tag("html", NoAttrs, <<head, Tag("body", NoAttrs, <<main>>)>>)
    IN IF IsExc(root) THEN root ELSE [doctype |-> "<!DOCTYPE html>", root |-> root]

(***************************************************************************)
(* src/avdoc.py, the script the package grew out of: the same parse,       *)
(* field_type_html, get_edges and draw_graph; doc strings are shown as     *)
(* they are, the footer has no ids, main() prints the document itself      *)
(***************************************************************************)
\* field_docstring if field_docstring else i("missing")
script_docstring_html(doc) ==
    IF Truthy(doc) THEN doc ELSE Tag("i", NoAttrs, <<Text("missing")>>)

script_field_html(field, schema_name) ==
    LET field_id == schema_name \o "." \o field.name IN
    Tag("tr", NoAttrs,
        << Tag("th", <<<<"scope", "row">>>>,
               <<Tag("a", <<<<"class", "fieldname">>, <<"href", "#" \o field_id>>,
                            <<"id", field_id>>>>, <<Text(field.name)>>)>>),
           TagOf("td", script_docstring_html(field.doc)),
           TagOf("td", field_type_html(field.type)),
           TagOf("td", field_default(field)) >>)

script_named_schema_html(schema) ==
    LET schema_docstring == script_docstring_html(schema.doc)
        head ==
            << Tag("h2", NoAttrs,
                   << A(schema.fullname, JStr("#" \o schema.fullname)),
                      Tag("small", NoAttrs,
                          <<A(schema.type, avro_type_specification_url(schema.type))>>) >>),
               Tag("h3", NoAttrs, <<Text("doc")>>),
               Tag("p", <<<<"class", "docstring">>>>,
                   <<IF "py" \in DOMAIN schema_docstring
                     THEN Text(schema_docstring.s) ELSE schema_docstring>>) >>
        body ==
            CASE schema.cls = "EnumSchema" ->
                    <<Tag("ul", NoAttrs,
                          <<Text("One of:")>> \o
                          [i \in 1..Len(schema.symbols) |->
                              Tag("li", NoAttrs,
                                  <<Tag("samp", NoAttrs, <<Text(schema.symbols[i])>>)>>)])>>
              [] schema.cls = "RecordSchema" ->
                    << Tag("h3", NoAttrs, <<Text("fields")>>),
                       Tag("table", <<<<"class", ".fullbleed">>>>,
                           <<table_head>> \o
                           [i \in 1..Len(schema.fields) |->
                               script_field_html(schema.fields[i], schema.fullname)] \o
                           <<table_head>>) >>
              [] isinstance(schema, "FixedSchema") ->
                    <<Tag("p", NoAttrs,
                          <<Text("Fixed type " \o py_str(JInt(schema.size))
                                 \o " bytes in size.")>>)>>
              [] OTHER -> <<>>
    IN Tag("section", <<<<"class", "schema">>, <<"id", schema.fullname>>>>, head \o body)

script_footer_html(schema_filename, schema_version, now) ==
    Tag("footer", NoAttrs,
        << Tag("p", NoAttrs,
               <<Text("Schema filename: "), Tag("code", NoAttrs, <<Text(schema_filename)>>)>>) >>
        \o (IF Truthy(schema_version)
            THEN << Tag("p", NoAttrs,
                        << Text("Schema version: "),
                           Tag("code", NoAttrs, <<Text(schema_version.s)>>) >>) >>
            ELSE <<>>)
        \o << Tag("p", NoAttrs,
                  << Text("⏲ "),
                     Tag("time", <<<<"datetime", now.iso>>>>, <<Text(now.c)>>) >>),
              Tag("p", NoAttrs, <<Text("⚒ avrodoc.py version " \o AvdocVersion)>>) >>)

script_generate_html(table, dependency_graph_svg, schema_filename, schema_title, schema_version, now) ==
    LET page_title == Or(schema_title, schema_filename) \o " (Avrodoc)"
        head ==
            Tag("head", NoAttrs,
                << Tag("title", NoAttrs, <<Text(page_title)>>),
                   Tag("meta", <<<<"charset", "utf-8">>>>, <<>>),
                   Tag("meta", << <<"content", "width=device-width, initial-scale=1.0">>,
                                  <<"name", "viewport">> >>, <<>>),
                   Tag("link", << <<"href", "https://unpkg.com/missing.css@1.0.9/dist/missing.min.css">>,
                                  <<"rel", "stylesheet">> >>, <<>>),
                   Tag("style", NoAttrs, <<Raw(":root { --line-length: 80rem; } ...")>>) >>)
        main ==
            Tag("main", NoAttrs,
                << Tag("header", NoAttrs,
                       <<Tag("h1", NoAttrs, <<Text(Or(schema_title, page_title))>>)>>),
                   Tag("figure", NoAttrs,
                       << Tag("figcaption", NoAttrs, <<Text("reference graph")>>),
                          Raw(dependency_graph_svg) >>) >>
                \o [i \in 1..Len(table) |-> script_named_schema_html(table[i])]
                \o <<script_footer_html(schema_filename, schema_version, now)>>)
        root == Tag("html", NoAttrs, <<head, Tag("body", NoAttrs, <<main>>)>>)
    IN IF IsExc(root) THEN root ELSE [doctype |-> "<!DOCTYPE html>", root |-> root]

RECURSIVE AttrString(_)
AttrString(attrs) ==
    IF attrs = <<>> THEN ""
    ELSE " " \o Head(attrs)[1] \o "=\"" \o Head(attrs)[2] \o "\"" \o AttrString(Tail(attrs))

\* tags dominate renders without a closing tag
Single == {"meta", "link"}

RECURSIVE render_node(_), render_all(_)
render_node(n) ==
    IF IsTag(n)
    THEN <<"<" \o n.tag \o AttrString(n.attrs) \o ">">> \o render_all(n.children)
         \o (IF n.tag \in Single THEN <<>> ELSE <<"</" \o n.tag \o ">">>)
    ELSE IF "raw" \in DOMAIN n THEN (IF n.raw = "" THEN <<>> ELSE <<n.raw>>)
    ELSE (IF n.text = "" THEN <<>> ELSE <<n.text>>)
render_all(ch) == IF ch = <<>> THEN <<>> ELSE render_node(Head(ch)) \o render_all(Tail(ch))

\* document.render(): the doctype, then the html element
render(doc) == <<doc.doctype>> \o render_node(doc.root)

(***************************************************************************)
(* get_edges and draw_graph                                                *)
(***************************************************************************)
IsNamed(s) == isinstance(s, "NamedSchema")

\* the edges of a field, a union giving its first named branch only
field_edges_first_branch(name, field) ==
    CASE IsNamed(field.type) -> <<<<name, field.type.fullname>>>>
      [] field.type.cls = "ArraySchema" ->
            IF IsNamed(field.type.items) THEN <<<<name, field.type.items.fullname>>>> ELSE <<>>
      [] field.type.cls = "UnionSchema" ->
            LET all == Concat([i \in 1..Len(field.type.schemas) |->
                                 IF IsNamed(field.type.schemas[i])
                                 THEN <<<<name, field.type.schemas[i].fullname>>>> ELSE <<>>])
            IN IF all = <<>> THEN <<>> ELSE <<all[1]>>
      [] OTHER -> <<>>

\* the edges of a field, with arrays and unions followed to any depth
RECURSIVE type_edges_recursive(_, _)
type_edges_recursive(name, t) ==
    CASE IsNamed(t) -> <<<<name, t.fullname>>>>
      [] t.cls = "ArraySchema" -> type_edges_recursive(name, t.items)
      [] t.cls = "UnionSchema" ->
            Concat([i \in 1..Len(t.schemas) |-> type_edges_recursive(name, t.schemas[i])])
      [] OTHER -> <<>>
field_edges_recursive(name, field) == type_edges_recursive(name, field.type)

\* the edges one field adds
field_edges(name, field) ==
    CASE IsNamed(field.type) -> <<<<name, field.type.fullname>>>>
      [] field.type.cls = "ArraySchema" ->
            IF IsNamed(field.type.items) THEN <<<<name, field.type.items.fullname>>>> ELSE <<>>
      [] field.type.cls = "UnionSchema" ->
            Concat([i \in 1..Len(field.type.schemas) |->
                      IF IsNamed(field.type.schemas[i])
                      THEN <<<<name, field.type.schemas[i].fullname>>>> ELSE <<>>])
      [] OTHER -> <<>>

get_edges(schema) ==
    IF schema.cls = "RecordSchema"
    THEN Concat([i \in 1..Len(schema.fields) |-> field_edges(schema.fullname, schema.fields[i])])
    ELSE <<>>

\* the loop of draw_graph over names.names.items()
all_edges(table) == Concat([i \in 1..Len(table) |-> get_edges(table[i])])

Range(f) == {f[i] : i \in DOMAIN f}

\* G.add_edge(u, v) on pygraphviz.AGraph(directed=True): the graph is strict
\* (AGraph's default), so an edge that is already there is not added again; a
\* loop (u, u) is an edge like any other
add_edge(G, e) ==
    IF e \in Range(G.edges) THEN G ELSE [G EXCEPT !.edges = Append(@, e)]

RECURSIVE add_edges(_, _)
add_edges(G, es) == IF es = <<>> THEN G ELSE add_edges(add_edge(G, Head(es)), Tail(es))

\* G.add_node(v, href="#" + v) for every key, then the edges
build_graph(vertices, es) ==
    add_edges([nodes |-> [i \in 1..Len(vertices) |->
                             [name |-> vertices[i], href |-> "#" \o vertices[i]]],
               edges |-> <<>>], es)

RECURSIVE svg_nodes(_), svg_edges(_)
svg_nodes(ns) ==
    IF ns = <<>> THEN ""
    ELSE "<a xlink:href=\"" \o Head(ns).href \o "\">" \o Head(ns).name \o "</a>"
         \o svg_nodes(Tail(ns))
svg_edges(es) ==
    IF es = <<>> THEN ""
    ELSE "<title>" \o Head(es)[1] \o "->" \o Head(es)[2] \o "</title>" \o svg_edges(Tail(es))

\* G.draw(buffer, format="svg"): the image graphviz lays out, a fixed width in
\* points in its svg element
draw(G) == [width |-> "62pt", body |-> svg_nodes(G.nodes) \o svg_edges(G.edges)]

\* re.sub(r'svg width="\d+pt"', 'svg width="100%"', svg_str)
relative_width(image) ==
    IF image.width \in {"62pt"} THEN [image EXCEPT !.width = "100%"] ELSE image

svg_str(image) == "<svg width=\"" \o image.width \o "\">" \o image.body \o "</svg>"

(***************************************************************************)
(* The inputs of a run                                                     *)
(***************************************************************************)
\* the two named types a schema of the model declares: ns.A and B
TypeNames == << [namespace |-> "ns", name |-> "A"], [namespace |-> "", name |-> "B"] >>
FullnameOf(k) == Fullname(TypeNames[k].namespace, TypeNames[k].name)
FieldNames == <<"f1", "f2", "f3", "f4", "f5">>

\* a union may not hold two branches of the same type unless they are named types
BranchType(d) == IF d.json \in {"prim", "annotated"} THEN d.type ELSE d.json
ValidUnion(s) ==
    \A i, j \in 1..Len(s) :
        (i < j /\ s[i].json # "name" /\ s[j].json # "name") => BranchType(s[i]) # BranchType(s[j])

\* the leaves of the rich family: a primitive, the record itself, a logical
\* type the library knows and an annotation it does not know
Leaves ==
    { DPrim("string"), DRef("ns.A"), DAnnotated("int", "date"), DAnnotated("string", "foo") }

\* the declared types of exactly n nodes; a union holds at least one branch and
\* no union directly
RECURSIVE TypesOfSize(_), BranchesOfSize(_)
TypesOfSize(n) ==
    IF n < 1 THEN {}
    ELSE IF n = 1 THEN Leaves
    ELSE {DArray(t) : t \in TypesOfSize(n - 1)} \cup {DMap(t) : t \in TypesOfSize(n - 1)}
         \cup {DUnion(b) : b \in {c \in BranchesOfSize(n - 1) : ValidUnion(c)}}
BranchesOfSize(m) ==
    IF m = 0 THEN {<<>>}
    ELSE UNION { { <<t>> \o r : t \in {u \in TypesOfSize(k) : u.json # "union"},
                                r \in BranchesOfSize(m - k) } : k \in 1..m }

RichTypes == UNION {TypesOfSize(n) : n \in 1..MaxNodes}

\* the field types of the table family, over the names the table declares
LeanTypes(refs) ==
    {DPrim("string")} \cup {DRef(n) : n \in refs} \cup {DArray(DRef(n)) : n \in refs}

FieldSeqs(n, T) ==
    UNION { { [i \in 1..k |-> DField(FieldNames[i], Absent, ts[i], Absent)] : ts \in [1..k -> T] }
            : k \in 0..n }

\* a declaration of the named type k: a record of at most n fields, an enum, a fixed
Entries(k, n, T) ==
    { DRecord(TypeNames[k].namespace, TypeNames[k].name, Absent, fs) : fs \in FieldSeqs(n, T) }
    \cup { DEnum(TypeNames[k].namespace, TypeNames[k].name, Absent, <<"X", "Y">>),
           DFixed(TypeNames[k].namespace, TypeNames[k].name, 16) }

NumFields(e) == IF e.type = "record" THEN Len(e.fields) ELSE 0

\* the table family: one or two named types in either order, at most MaxFields
\* fields in all, every field type over the names of the table
TableFamily ==
    UNION { Entries(k, MaxFields, LeanTypes({FullnameOf(k)})) \X {<<>>} : k \in {1, 2} }
    \cup UNION { UNION { {e1} \X { <<e2>> : e2 \in Entries(3 - k, MaxFields - NumFields(e1),
                                                        LeanTypes({FullnameOf(1), FullnameOf(2)})) }
                         : e1 \in Entries(k, MaxFields, LeanTypes({FullnameOf(1), FullnameOf(2)})) }
                 : k \in {1, 2} }
Tables == { <<p[1]>> \o p[2] : p \in TableFamily }

\* the rich family: the record ns.A with one field of a rich type
RichTables ==
    { <<DRecord("ns", "A", Absent, <<DField("f1", Absent, t, Absent)>>)>> : t \in RichTypes }

Docs ==
    { Absent, None, JStr(""), JStr(" "), JStr("Plain text."), JStr("[a]: http://x"),
      JStr("# Title"), JStr("One.\n\nTwo.") }
Defaults ==
    { Absent, None, JInt(0), JInt(1), JStr(""), JStr("x"), JStr("null"), JStr("<b>"),
      JBool(FALSE), JDict("k", "v") }

\* the fixed types a field declares in place: B with the logical type decimal,
\* B with a logical type the library does not attach to a fixed, B with none
InlineFixed ==
    { DInline(DFixedLogical("", "B", 16, "decimal")),
      DInline(DFixedLogical("", "B", 16, "duration")),
      DInline(DFixed("", "B", 16)) }

\* the field types around one fixed type declared in place
FixedTypes ==
    UNION { { x, DArray(x), DMap(x), DUnion(<<DPrim("null"), x>>), DArray(DArray(x)),
              DArray(DUnion(<<DPrim("null"), x>>)), DUnion(<<DArray(x), DPrim("null")>>),
              DArray(DMap(x)), DUnion(<<DRef("ns.A"), x>>),
              DUnion(<<DMap(DAnnotated("int", "date")), DArray(x),
                       DAnnotated("int", "date")>>) } : x \in InlineFixed }

\* the fixed family: the record ns.A with one field whose type declares B
FixedTables ==
    { <<DRecord("ns", "A", Absent, <<DField("f1", Absent, t, Absent)>>)>> : t \in FixedTypes }

\* the field family: the record ns.A with one string field, docs and default varied
FieldTables ==
    { <<DRecord("ns", "A", sd, <<DField("f1", fd, DPrim("string"), df)>>)>> :
        sd \in Docs, fd \in Docs, df \in Defaults }

\* the sample schema: B refers to ns.A twice and to itself
Sample ==
    << DEnum("ns", "A", JStr("Plain text."), <<"X", "Y">>),
       DRecord("", "B", Absent,
               << DField("f1", JStr("Plain text."), DRef("ns.A"), Absent),
                  DField("f2", Absent, DArray(DRef("ns.A")), None),
                  DField("f3", Absent, DUnion(<<DPrim("null"), DRef("B")>>), None) >>) >>

\* the text of a file and what json.loads makes of it
ValidFile(decls) == [text |-> "{...}", json |-> "data", data |-> decls]
BadJson ==
    { [text |-> "", json |-> "error", msg |-> "Expecting value: line 1 column 1 (char 0)"],
      [text |-> "{", json |-> "error",
       msg |-> "Expecting property name enclosed in double quotes: line 1 column 2 (char 1)"] }
\* valid JSON that is no Avro schema
BadSchema == [text |-> "{\"type\": \"recrod\"}", json |-> "data", data |-> <<>>, invalid |-> TRUE]

Paths == { <<"tests", "example.avsc">>, <<"a&b.avsc">> }

\* the two programs of the repository: python -m avdoc and python avdoc.py
Programs == {"avdoc/__main__.py", "avdoc.py"}

\* what the path names: a file of UTF-8 text, nothing, a directory, a file that
\* is not UTF-8
PathEntries == {"file", "missing", "directory", "not_utf8"}
NoFile == [json |-> "none"]
NotUtf8 == [bytes |-> <<"ff", "fe", "7b">>, json |-> "none"]

Run(program, path, entry, file, title, version, dot) ==
    [program |-> program, path |-> path, entry |-> entry, readable |-> entry = "file",
     file |-> file, schema_title |-> title, schema_version |-> version, dot |-> dot]

\* the schemas the script is run on: the fixed family, and the field family
\* with no default
ScriptTables == FixedTables \cup {t \in FieldTables : t[1].fields[1].default = Absent}

Runs ==
    { Run("avdoc/__main__.py", <<"tests", "example.avsc">>, "file", ValidFile(t), None, None, TRUE) :
        t \in Tables \cup RichTables \cup FixedTables \cup FieldTables }
    \cup { Run("avdoc.py", <<"tests", "example.avsc">>, "file", ValidFile(t), None, None, TRUE) :
             t \in ScriptTables }
    \cup { Run(g, p, "file", ValidFile(Sample), t, v, TRUE) :
             g \in Programs, p \in Paths,
             t \in {None, JStr(""), JStr("Title")}, v \in {None, JStr(""), JStr("1.0")} }
    \cup { Run(g, <<"tests", "example.avsc">>, "file", f, JStr(""), JStr(""), TRUE) :
             g \in Programs, f \in BadJson \cup {BadSchema} }
    \cup { Run(g, <<"tests", "example.avsc">>, "file", ValidFile(Sample), JStr(""), JStr(""), d) :
             g \in Programs, d \in BOOLEAN }
    \cup { Run(g, p, e, IF e = "not_utf8" THEN NotUtf8 ELSE NoFile, JStr(""), JStr(""), TRUE) :
             g \in Programs, p \in Paths, e \in PathEntries \ {"file"} }

(***************************************************************************)
(* The run: main() calls avdoc(), avdoc() its stages in turn               *)
(***************************************************************************)
NoError == [exc |-> "none"]
NoValue == <<>>

Init ==
    /\ run \in Runs
    /\ pc = "read"
    /\ contents = NoValue
    /\ names = NoValue
    /\ edges = NoValue
    /\ graph = NoValue
    /\ svg = ""
    /\ document = NoValue
    /\ html = NoValue
    /\ stdout = NoValue
    /\ error = NoError
    /\ earlier = <<>>

\* str(avsc): the parts of the path, joined by "/"
RECURSIVE path_str(_)
path_str(parts) ==
    IF Len(parts) = 1 THEN parts[1] ELSE parts[1] \o "/" \o path_str(Tail(parts))

\* what open() and the UTF-8 decoder raise: `arg` is args[0] of the exception
read_error(entry, path) ==
    CASE entry = "missing" ->
            [exc |-> "FileNotFoundError", arg |-> 2, strerror |-> "No such file or directory",
             filename |-> path_str(path)]
      [] entry = "directory" ->
            [exc |-> "IsADirectoryError", arg |-> 21, strerror |-> "Is a directory",
             filename |-> path_str(path)]
      [] entry = "not_utf8" ->
            [exc |-> "UnicodeDecodeError", arg |-> "utf-8", object |-> run.file.bytes,
             start |-> 0, end |-> 1, reason |-> "invalid start byte"]

\* avsc.read_text(encoding="utf-8")
ReadText ==
    /\ pc = "read"
    /\ IF run.readable
       THEN /\ contents' = run.file
            /\ pc' = "parse"
            /\ error' = error
       ELSE /\ contents' = contents
            /\ pc' = "aborted"
            /\ error' = read_error(run.entry, run.path)
    /\ UNCHANGED <<run, names, edges, graph, svg, document, html, stdout, earlier>>

\* the message without the text of the file
parse_no_text(json_string) ==
    IF json_string.json = "error"
    THEN [exc |-> "SchemaParseException",
          message |-> <<"Error parsing JSON, error = ", json_string.msg>>,
          cause |-> Raise("JSONDecodeError", json_string.msg)]
    ELSE IF "invalid" \in DOMAIN json_string
    THEN Raise("SchemaParseException", "invalid schema")
    ELSE [names |-> Names(json_string.data)]

\* parse(json_string): the exception it raises, or the table.  The message of
\* the exception is kept as the pieces of its f-string, in order.
parse(json_string) ==
    IF json_string.json = "error"
    THEN [exc |-> "SchemaParseException",
          message |-> <<"Error parsing JSON: ", json_string.text, ", error = ", json_string.msg>>,
          cause |-> Raise("JSONDecodeError", json_string.msg)]
    ELSE IF "invalid" \in DOMAIN json_string
    THEN Raise("SchemaParseException", "invalid schema")
    ELSE [names |-> Names(json_string.data)]

\* parse() with its exception caught and the run going on with no type
Parse_caught ==
    /\ pc = "parse"
    /\ LET r == parse(contents) IN
       IF IsExc(r)
       THEN /\ error' = r
            /\ pc' = "edges"
            /\ names' = <<>>
       ELSE /\ names' = r.names
            /\ pc' = "edges"
            /\ error' = error
    /\ UNCHANGED <<run, contents, edges, graph, svg, document, html, stdout, earlier>>

Parse ==
    /\ pc = "parse"
    /\ LET r == parse(contents) IN
       IF IsExc(r)
       THEN /\ error' = r
            /\ pc' = "aborted"
            /\ names' = names
       ELSE /\ names' = r.names
            /\ pc' = "edges"
            /\ error' = error
    /\ UNCHANGED <<run, contents, edges, graph, svg, document, html, stdout, earlier>>

\* draw_graph, the loop that collects the edges
ExtractEdges ==
    /\ pc = "edges"
    /\ edges' = all_edges(names)
    /\ pc' = "graph"
    /\ UNCHANGED <<run, contents, names, graph, svg, document, html, stdout, error, earlier>>

\* draw_graph, from AGraph(directed=True) on: the graph, its layout, the image
RenderGraph ==
    /\ pc = "graph"
    /\ graph' = build_graph(Keys(names), edges)
    /\ IF run.dot
       THEN /\ svg' = svg_str(relative_width(draw(graph')))
            /\ pc' = "html"
            /\ error' = error
       ELSE /\ svg' = svg
            /\ pc' = "aborted"
            /\ error' = Raise("ValueError", "Program dot not found in path.")
    /\ UNCHANGED <<run, contents, names, edges, document, html, stdout, earlier>>

\* avsc.name
schema_filename == run.path[Len(run.path)]

GenerateHtml ==
    /\ pc = "html"
    /\ run.program = "avdoc/__main__.py"
    /\ \E now \in Times :
        LET doc == generate_html(names, svg, schema_filename, run.schema_title,
                                 run.schema_version, now) IN
        IF IsExc(doc)
        THEN /\ error' = doc
             /\ pc' = "aborted"
             /\ UNCHANGED <<document, html>>
        ELSE /\ document' = doc
             /\ html' = render(doc)
             /\ pc' = "print"
             /\ error' = error
    /\ UNCHANGED <<run, contents, names, edges, graph, svg, stdout, earlier>>

\* generate_html of src/avdoc.py, called by its main()
ScriptGenerateHtml ==
    /\ pc = "html"
    /\ run.program = "avdoc.py"
    /\ \E now \in Times :
        LET doc == script_generate_html(names, svg, schema_filename, run.schema_title,
                                        run.schema_version, now) IN
        IF IsExc(doc)
        THEN /\ error' = doc
             /\ pc' = "aborted"
             /\ UNCHANGED <<document, html>>
        ELSE /\ document' = doc
             /\ html' = render(doc)
             /\ pc' = "print"
             /\ error' = error
    /\ UNCHANGED <<run, contents, names, edges, graph, svg, stdout, earlier>>

\* print(html)
WriteStdout ==
    /\ pc = "print"
    /\ stdout' = html
    /\ pc' = "done"
    /\ UNCHANGED <<run, contents, names, edges, graph, svg, document, html, error, earlier>>

Next ==
    ReadText \/ Parse \/ ExtractEdges \/ RenderGraph \/ GenerateHtml \/ ScriptGenerateHtml
    \/ WriteStdout

Spec == Init /\ [][Next]_vars

(***************************************************************************)
(* The tool invoked again on the same file with the same options           *)
(***************************************************************************)
\* main() in a new process: nothing of the process before is left but what it
\* printed; the file and the options are the same
Invoke ==
    /\ pc \in {"done", "aborted"}
    /\ Len(earlier) < MaxInvocations - 1
    /\ earlier' = Append(earlier, [run |-> run, stdout |-> stdout, error |-> error])
    /\ pc' = "read"
    /\ contents' = NoValue
    /\ names' = NoValue
    /\ edges' = NoValue
    /\ graph' = NoValue
    /\ svg' = ""
    /\ document' = NoValue
    /\ html' = NoValue
    /\ stdout' = NoValue
    /\ error' = NoError
    /\ UNCHANGED run

\* the runs that are repeated: the sample schema under every option, and the
\* runs that fail
InitTwice ==
    /\ Init
    /\ run.file \in {ValidFile(Sample), NoFile, NotUtf8} \cup BadJson \cup {BadSchema}

NextTwice ==
    ReadText \/ Parse \/ ExtractEdges \/ RenderGraph \/ GenerateHtml \/ ScriptGenerateHtml
    \/ WriteStdout \/ Invoke

SpecTwice == InitTwice /\ [][NextTwice]_vars

(***************************************************************************)
(* Reading the state                                                       *)
(***************************************************************************)
\* the stages that have run
EdgesExtracted ==
    pc \in {"graph", "html", "print", "done"}
    \/ (pc = "aborted" /\ error.exc \in {"ValueError", "KeyError"})
GraphDrawn == pc \in {"html", "print", "done"} \/ (pc = "aborted" /\ error.exc = "KeyError")
Rendered == pc \in {"print", "done"}

\* every tag named t under n, n included, in document order
RECURSIVE TagsIn(_, _), TagsInAll(_, _)
TagsIn(n, t) ==
    IF IsTag(n)
    THEN (IF n.tag = t THEN <<n>> ELSE <<>>) \o TagsInAll(n.children, t)
    ELSE <<>>
TagsInAll(ch, t) == IF ch = <<>> THEN <<>> ELSE TagsIn(Head(ch), t) \o TagsInAll(Tail(ch), t)

\* the values of the attribute a of the tag n
AttrValues(n, a) == { n.attrs[i][2] : i \in {j \in 1..Len(n.attrs) : n.attrs[j][1] = a} }

\* the <main> element and its children that are sections
MainOf(doc) == doc.root.children[2].children[1]
SectionsOf(doc) == SelectSeq(MainOf(doc).children, LAMBDA n : IsTag(n) /\ n.tag = "section")

(***************************************************************************)
(* C1                                                                      *)
(***************************************************************************)
\* C1: the document holds exactly one section per entry of the Named Type
\* Table, the sections are the children of <main> in table order, and the id
\* of the k-th section is the fully-qualified name of the k-th entry.
C1_SectionPerNamedType ==
    Rendered =>
        /\ TagsIn(document.root, "section") = SectionsOf(document)
        /\ Len(SectionsOf(document)) = Len(names)
        /\ \A k \in 1..Len(names) :
              AttrValues(SectionsOf(document)[k], "id") = {Keys(names)[k]}

\* a table of two types whose order is not the alphabetical one was rendered
C1_Witness ==
    /\ pc = "done"
    /\ Keys(names) = <<"ns.A", "B">>
    /\ Len(SectionsOf(document)) = 2

(***************************************************************************)
(* C2                                                                      *)
(***************************************************************************)
RECURSIVE RefBranchEdges(_, _)
RefBranchEdges(r, branches) ==
    IF branches = <<>> THEN <<>>
    ELSE (IF "fullname" \in DOMAIN Head(branches) THEN <<<<r, Head(branches).fullname>>>> ELSE <<>>)
         \o RefBranchEdges(r, Tail(branches))

RefTypeEdges(r, t) ==
    IF "fullname" \in DOMAIN t THEN <<<<r, t.fullname>>>>
    ELSE IF t.cls = "ArraySchema"
         THEN (IF "fullname" \in DOMAIN t.items THEN <<<<r, t.items.fullname>>>> ELSE <<>>)
    ELSE IF t.cls = "UnionSchema" THEN RefBranchEdges(r, t.schemas)
    ELSE <<>>

RECURSIVE RefRecordEdges(_, _)
RefRecordEdges(r, fields) ==
    IF fields = <<>> THEN <<>>
    ELSE RefTypeEdges(r, Head(fields).type) \o RefRecordEdges(r, Tail(fields))

RECURSIVE RefEdges(_)
RefEdges(table) ==
    IF table = <<>> THEN <<>>
    ELSE (IF Head(table).type = "record"
          THEN RefRecordEdges(Head(table).fullname, Head(table).fields) ELSE <<>>)
         \o RefEdges(Tail(table))

\* C2: the edge list is the reference sequence: records in table order, fields
\* in declaration order, one pair for a named field type, one for an array of
\* a named type, one per named branch of a union in branch order, nothing
\* else; duplicates and loops are kept.
C2_EdgeListIsReference == EdgesExtracted => edges = RefEdges(names)

\* the sample schema: B refers to ns.A twice and to itself
C2_Witness ==
    /\ pc = "graph"
    /\ edges = << <<"B", "ns.A">>, <<"B", "ns.A">>, <<"B", "B">> >>

(***************************************************************************)
(* C3                                                                      *)
(***************************************************************************)
\* C3: the graph has one node per table entry (identifier the fully-qualified
\* name, href "#" and that name) and one edge per pair of the edge list, so
\* that duplicate pairs are all in the graph.
C3_GraphHoldsEveryEdge ==
    GraphDrawn =>
        /\ graph.nodes = [k \in 1..Len(names) |->
                             [name |-> Keys(names)[k], href |-> "#" \o Keys(names)[k]]]
        /\ graph.edges = edges

(***************************************************************************)
(* Reading the sections                                                    *)
(***************************************************************************)
\* the rows of the fields in the section of a record: the children of its
\* table between the two heads
RowsOf(section) ==
    LET rows == section.children[5].children IN SubSeq(rows, 2, Len(rows) - 1)
\* the cells of a row: the doc, the type and the default
DocCell(row) == row.children[2]
TypeCell(row) == row.children[3]
DefaultCell(row) == row.children[4]
\* the doc block of a section: its <p class="docstring">
DocBlock(section) == section.children[3]

\* the records of the table, as indices
RecordsOf(table) == {k \in 1..Len(table) : table[k].type = "record"}
\* the declarations the file holds
Declared == run.file.data

(***************************************************************************)
(* C4                                                                      *)
(***************************************************************************)
EmptyCell == <<"<td>", "</td>">>
NullCell == <<"<td>", "<samp>", "null", "</samp>", "</td>">>

\* C4: the default cell of a field is the "null" marker for a null default,
\* empty for no default, and otherwise the default value itself, told apart
\* from both; a default of 0 shows "0".
C4_DefaultCellTriState ==
    Rendered =>
        \A k \in RecordsOf(names) : \A i \in 1..Len(names[k].fields) :
            LET f == Declared[k].fields[i]
                cell == render_node(DefaultCell(RowsOf(SectionsOf(document)[k])[i]))
            IN CASE f.default = Absent -> cell = EmptyCell
                 [] f.default = None -> cell = NullCell
                 [] f.default = JInt(0) -> cell = <<"<td>", "0", "</td>">>
                 [] OTHER -> /\ cell # EmptyCell
                             /\ cell # NullCell
                             /\ Len(cell) = 3 /\ cell[1] = "<td>" /\ cell[3] = "</td>"

(***************************************************************************)
(* C5                                                                      *)
(***************************************************************************)
\* C5: the type cell of a field whose type is a union of K branches is a span
\* holding the "union" link, "[", the K renderings of the branches in branch
\* order with exactly one "|" between two neighbours and none before the
\* first or after the last, and "]".
C5_UnionCell ==
    Rendered =>
        \A k \in RecordsOf(names) : \A i \in 1..Len(names[k].fields) :
            LET t == names[k].fields[i].type
                cell == TypeCell(RowsOf(SectionsOf(document)[k])[i])
                ch == cell.children[1].children
                K == Len(t.schemas)
            IN t.cls = "UnionSchema" =>
                /\ Len(cell.children) = 1
                /\ Len(ch) = 2 * K + 2
                /\ render_node(ch[1]) = <<"<a href=\"" \o SpecificationUrls["union"] \o "\">",
                                          "union", "</a>">>
                /\ ch[2] = [text |-> "["]
                /\ ch[Len(ch)] = [text |-> "]"]
                /\ \A b \in 1..K : ch[2 * b + 1] = field_type_html(t.schemas[b])
                /\ \A b \in 1..(K - 1) : ch[2 * b + 2] = [text |-> "|"]
                /\ Cardinality({j \in 1..Len(ch) : ch[j] = [text |-> "|"]}) = K - 1

\* a union of three branches, one of them nested, was rendered
C5_Witness ==
    /\ pc = "done"
    /\ \E k \in RecordsOf(names) : \E i \in 1..Len(names[k].fields) :
          /\ names[k].fields[i].type.cls = "UnionSchema"
          /\ Len(names[k].fields[i].type.schemas) = 3
          /\ Len(TypeCell(RowsOf(SectionsOf(document)[k])[i]).children[1].children) = 8

(***************************************************************************)
(* C6                                                                      *)
(***************************************************************************)
\* C6: when the text of the file is not valid JSON, parse raises an error, and
\* gives no table, whose message holds the text of the file and the message
\* of the JSON decode error, and whose cause is that decode error.
C6_ParseError ==
    (run.file.json = "error" /\ pc \notin {"read", "parse"} /\ run.readable) =>
        /\ pc = "aborted"
        /\ names = NoValue
        /\ error.exc = "SchemaParseException"
        /\ \E a, b \in 1..Len(error.message) :
              a < b /\ error.message[a] = run.file.text /\ error.message[b] = run.file.msg
        /\ error.cause = [exc |-> "JSONDecodeError", arg |-> run.file.msg]

\* the file that holds "{" was parsed
C6_Witness ==
    /\ pc = "aborted"
    /\ run.file.json = "error"
    /\ run.file.text = "{"
    /\ error.exc = "SchemaParseException"

(***************************************************************************)
(* C7                                                                      *)
(***************************************************************************)
StageOrder ==
    \/ <<pc, pc'>> \in { <<"read", "parse">>, <<"parse", "edges">>, <<"edges", "graph">>,
                         <<"graph", "html">>, <<"html", "print">>, <<"print", "done">> }
       /\ error' = NoError
    \/ pc \in {"read", "parse", "edges", "graph", "html"} /\ pc' = "aborted" /\ error' # NoError

\* C7: the stages run in the order read, parse, extract edges, render graph,
\* render HTML, write; a stage starts only after the one before it succeeded;
\* a failure ends the run for good; nothing is on standard output unless
\* every stage succeeded, and then it is the whole document.
C7_AllOrNothing ==
    [][ /\ StageOrder
        /\ pc # "aborted" /\ pc # "done"
        /\ stdout' # NoValue =>
              (pc' = "done" /\ error' = NoError /\ stdout' = html' /\ html' = render(document'))
        /\ pc' # "done" => stdout' = NoValue ]_vars

\* a run printed its document
C7_Witness == pc = "done" /\ stdout = html /\ Len(stdout) > 1

(***************************************************************************)
(* C8                                                                      *)
(***************************************************************************)
\* the declared type holds, itself or under arrays and unions, a logical type
\* name that is no key of the specification-URL table
RECURSIVE CarriesUnknownLogical(_)
CarriesUnknownLogical(d) ==
    CASE d.json = "annotated" -> d.logicalType \notin DOMAIN SpecificationUrls
      [] d.json = "array" -> CarriesUnknownLogical(d.items)
      [] d.json = "union" -> \E b \in 1..Len(d.schemas) : CarriesUnknownLogical(d.schemas[b])
      [] OTHER -> FALSE

\* C8: a field type that carries a logical type name absent from the
\* specification-URL table makes rendering abort with a lookup failure; such
\* a type is never rendered.
C8_UnknownLogicalAborts ==
    (/\ pc \in {"print", "done", "aborted"}
     /\ run.readable /\ run.dot /\ run.file.json = "data" /\ "invalid" \notin DOMAIN run.file
     /\ \E k \in 1..Len(Declared) :
           /\ Declared[k].type = "record"
           /\ \E i \in 1..Len(Declared[k].fields) : CarriesUnknownLogical(Declared[k].fields[i].type))
    => (pc = "aborted" /\ error.exc = "KeyError")

(***************************************************************************)
(* C9                                                                      *)
(***************************************************************************)
Placeholder == <<"<i>", "missing", "</i>">>

\* the HTML of the doc strings of the model, as CommonMark gives it: a
\* paragraph, a heading, two paragraphs; nothing for white space and for a
\* link reference definition, which show nothing to a reader
Converted(s) ==
    CASE s = "Plain text." -> <<"<p>Plain text.</p>\n">>
      [] s = "# Title" -> <<"<h1>Title</h1>\n">>
      [] s = "One.\n\nTwo." -> <<"<p>One.</p>\n<p>Two.</p>\n">>
      [] s \in {" ", "[a]: http://x"} -> <<>>

\* the doc strings that are present and converted into nothing
Vanishing == {JStr(" "), JStr("[a]: http://x")}

\* what the doc block must hold for a declared doc: the converted doc string
\* when there is one, the placeholder otherwise
DocShown(doc, block) ==
    IF doc.py = "str" /\ doc.s # ""
    THEN block = Converted(doc.s)
    ELSE block = Placeholder

\* the same for the script src/avdoc.py: the doc string itself, as text
DocShownAsText(doc, block) ==
    IF doc.py = "str" /\ doc.s # ""
    THEN block = <<doc.s>>
    ELSE block = Placeholder

Package == run.program = "avdoc/__main__.py"

\* the doc blocks of the document with the docs declared for them
DocBlocks ==
    { <<Declared[k].doc, render_all(DocBlock(SectionsOf(document)[k]).children)>> :
        k \in {j \in 1..Len(names) : names[j].type # "fixed"} }
    \cup { <<None, render_all(DocBlock(SectionsOf(document)[k]).children)>> :
        k \in {j \in 1..Len(names) : names[j].type = "fixed"} }
    \cup UNION { { <<Declared[k].fields[i].doc,
                     render_all(DocCell(RowsOf(SectionsOf(document)[k])[i]).children)>> :
                   i \in 1..Len(names[k].fields) } : k \in RecordsOf(names) }

\* C9 as claimed: every doc block, of a section or of a field row, shows the
\* converted doc string when one is present and the placeholder otherwise,
\* and is never empty.
C9_DocBlockNeverEmpty ==
    Rendered => \A b \in DocBlocks : DocShown(b[1], b[2]) /\ b[2] # <<>>

\* C9, amended: every doc block shows the placeholder when no doc, a null
\* doc or an empty doc is declared, and is never null.  For a non-empty doc
\* string the package (src/avdoc/__main__.py) shows the converted doc string,
\* and its block is empty exactly when the converter turns the doc string into
\* nothing (white space alone, a link reference definition alone); the script
\* src/avdoc.py shows the doc string itself as text, unconverted, and its
\* block is never empty.
C9_DocBlock ==
    Rendered =>
        \A b \in DocBlocks :
            /\ IF Package THEN DocShown(b[1], b[2]) ELSE DocShownAsText(b[1], b[2])
            /\ b[2] # <<"None">>
            /\ b[2] = <<>> <=> (Package /\ b[1] \in Vanishing)

\* a section with a doc string of two paragraphs and a field row whose doc
\* string is a link reference definition were rendered
C9_Witness ==
    /\ pc = "done"
    /\ Package
    /\ Declared[1].type = "record"
    /\ Declared[1].doc = JStr("One.\n\nTwo.")
    /\ Declared[1].fields[1].doc = JStr("[a]: http://x")
    /\ DocBlocks = { <<JStr("One.\n\nTwo."), <<"<p>One.</p>\n<p>Two.</p>\n">>>>,
                     <<JStr("[a]: http://x"), <<>>>> }

(***************************************************************************)
(* C10                                                                     *)
(***************************************************************************)
FooterOf(doc) == MainOf(doc).children[Len(MainOf(doc).children)]
WithId(n, id) == SelectSeq(n.children, LAMBDA c : IsTag(c) /\ AttrValues(c, "id") = {id})
\* the entries of the footer that begin with the text label
FooterEntry(doc, label) ==
    SelectSeq(FooterOf(doc).children,
              LAMBDA c : IsTag(c) /\ c.children # <<>> /\ c.children[1] = [text |-> label])
\* the opening of a footer entry: the package gives it an id, the script none
EntryOpen(id) == IF Package THEN "<p id=\"" \o id \o "\">" ELSE "<p>"

\* C10: the document avdoc returns begins with "<!DOCTYPE html>", its footer
\* holds the base name of the schema file's path, and the footer holds a
\* schema-version entry exactly when a non-empty version string was given.
C10_DoctypeAndFooter ==
    Rendered =>
        /\ html[1] = "<!DOCTYPE html>"
        /\ TagsIn(document.root, "footer") = <<FooterOf(document)>>
        /\ render_all(FooterEntry(document, "Schema filename: ")) =
              << EntryOpen("schema-filename"), "Schema filename: ", "<code>",
                 escape(run.path[Len(run.path)]), "</code>", "</p>" >>
        /\ Package => WithId(FooterOf(document), "schema-filename")
                          = FooterEntry(document, "Schema filename: ")
        /\ (FooterEntry(document, "Schema version: ") # <<>>)
              <=> (run.schema_version.py = "str" /\ run.schema_version.s # "")
        /\ Package => WithId(FooterOf(document), "schema-version")
                          = FooterEntry(document, "Schema version: ")
        /\ (run.schema_version.py = "str" /\ run.schema_version.s # "") =>
              render_all(FooterEntry(document, "Schema version: ")) =
                  << EntryOpen("schema-version"), "Schema version: ", "<code>",
                     run.schema_version.s, "</code>", "</p>" >>

\* a document with a version entry was returned for a file in a directory
C10_Witness ==
    /\ pc = "done"
    /\ run.path = <<"tests", "example.avsc">>
    /\ run.schema_version = JStr("1.0")
    /\ Package
    /\ WithId(FooterOf(document), "schema-version") # <<>>

(***************************************************************************)
(* C11                                                                     *)
(***************************************************************************)
\* the text a reader sees in the node n
RECURSIVE VisibleText(_), VisibleTextAll(_)
VisibleText(n) ==
    IF IsTag(n) THEN VisibleTextAll(n.children)
    ELSE IF "raw" \in DOMAIN n THEN n.raw ELSE n.text
VisibleTextAll(ch) ==
    IF ch = <<>> THEN "" ELSE VisibleText(Head(ch)) \o VisibleTextAll(Tail(ch))

KindWords == {"array", "union"}

\* the hyperlinks under n in document order, each as <<target, text>>, but for
\* the words "array" and "union"
TypeLinks(n) ==
    LET as == SelectSeq(TagsIn(n, "a"), LAMBDA l : VisibleText(l) \notin KindWords)
    IN [j \in 1..Len(as) |-> <<CHOOSE h \in AttrValues(as[j], "href") : TRUE, VisibleText(as[j])>>]

\* the kinds a type fits
TypeKinds(s) ==
    LET ks == (IF "fullname" \in DOMAIN s THEN {"named"} ELSE {})
               \cup (IF "logical_type" \in DOMAIN s THEN {"logical"} ELSE {})
               \cup (IF "items" \in DOMAIN s THEN {"array"} ELSE {})
               \cup (IF "schemas" \in DOMAIN s THEN {"union"} ELSE {})
    IN IF ks = {} THEN {"other"} ELSE ks

\* the kind a type is rendered by, when pref is the kind taken for a type that
\* is both named and logical
KindBy(s, pref) ==
    IF TypeKinds(s) = {"named", "logical"} THEN pref
    ELSE CHOOSE k \in TypeKinds(s) : TRUE

\* the text and the hyperlinks the rendering by kind gives
RECURSIVE KindText(_, _), KindLinks(_, _), JoinKindText(_, _)
KindText(s, pref) ==
    CASE KindBy(s, pref) = "named" -> s.fullname
      [] KindBy(s, pref) = "array" -> "array[" \o KindText(s.items, pref) \o "]"
      [] KindBy(s, pref) = "union" -> "union[" \o JoinKindText(s.schemas, pref) \o "]"
      [] KindBy(s, pref) = "logical" -> s.logical_type
      [] OTHER -> s.type
JoinKindText(ss, pref) ==
    IF ss = <<>> THEN ""
    ELSE IF Len(ss) = 1 THEN KindText(ss[1], pref)
    ELSE KindText(ss[1], pref) \o "|" \o JoinKindText(Tail(ss), pref)
KindLinks(s, pref) ==
    CASE KindBy(s, pref) = "named" -> << <<"#" \o s.fullname, s.fullname>> >>
      [] KindBy(s, pref) = "array" -> KindLinks(s.items, pref)
      [] KindBy(s, pref) = "union" ->
            Concat([b \in 1..Len(s.schemas) |-> KindLinks(s.schemas[b], pref)])
      [] KindBy(s, pref) = "logical" ->
            << <<SpecificationUrls[s.logical_type], s.logical_type>> >>
      [] OTHER -> <<>>

\* the type cells of the document with the types they render
TypeCells ==
    UNION { { <<names[k].fields[i].type, TypeCell(RowsOf(SectionsOf(document)[k])[i])>> :
              i \in 1..Len(names[k].fields) } : k \in RecordsOf(names) }

RenderedByKind(c, pref) ==
    /\ VisibleText(c[2]) = KindText(c[1], pref)
    /\ TypeLinks(c[2]) = KindLinks(c[1], pref)

\* C11 as claimed: a field type is rendered by kind (a named type as a
\* hyperlink to "#" and its full name, an array as "array[" item "]", a union
\* as "union[" branches joined by "|" "]", a logical type as a hyperlink to
\* the specification entry of its logical type name, any other type as its
\* bare type name), a type that fits two kinds by either of them.
C11_RenderedByEveryKind ==
    Rendered => \A c \in TypeCells : \A pref \in {"named", "logical"} : RenderedByKind(c, pref)

\* C11, amended: a field type is rendered by the first kind it fits in the
\* order named, array, union, logical, other; a fixed type with a logical type
\* is rendered as a named type, a map as the bare word "map".
C11_RenderedByFirstKind ==
    Rendered => \A c \in TypeCells : RenderedByKind(c, "named")

\* a union of a map, an array of a fixed decimal and a logical type was rendered
C11_Witness ==
    /\ pc = "done"
    /\ \E c \in TypeCells :
          /\ TypeKinds(c[1]) = {"union"}
          /\ \E b \in 1..Len(c[1].schemas) :
                /\ TypeKinds(c[1].schemas[b]) = {"array"}
                /\ TypeKinds(c[1].schemas[b].items) = {"named", "logical"}
          /\ VisibleText(c[2]) = "union[map|array[B]|date]"
          /\ TypeLinks(c[2]) = << <<"#B", "B">>,
                                  <<SpecificationUrls["date"], "date">> >>

(***************************************************************************)
(* C12                                                                     *)
(***************************************************************************)
\* what was printed, with the reading of the clock blanked: the <time> tag
\* and its text, the two tokens before the closing </time>
Timeless(out) ==
    LET G == {j \in 1..Len(out) : out[j] = "</time>"}
    IN [j \in 1..Len(out) |-> IF (j + 1) \in G \/ (j + 2) \in G THEN "" ELSE out[j]]

\* the invocation is over
Exited == pc \in {"done", "aborted"}

\* C12 as claimed: an invocation leaves the file and the options as it found
\* them, and on the same unchanged file with the same options it prints the
\* same HTML document as every earlier one, and ends as it ended.
C12_SameDocumentEveryTime ==
    (Exited /\ earlier # <<>>) =>
        \A i \in 1..Len(earlier) :
            /\ earlier[i].run = run
            /\ earlier[i].error = error
            /\ earlier[i].stdout = stdout

\* C12, amended: an invocation leaves the file and the options as it found
\* them, and on the same unchanged file with the same options it ends as every
\* earlier one ended, prints nothing if it failed, and otherwise prints the
\* same HTML document but for the generation time of the footer.
C12_SameDocumentButTime ==
    (Exited /\ earlier # <<>>) =>
        \A i \in 1..Len(earlier) :
            /\ earlier[i].run = run
            /\ earlier[i].error = error
            /\ Len(earlier[i].stdout) = Len(stdout)
            /\ Timeless(earlier[i].stdout) = Timeless(stdout)
            /\ pc = "aborted" => stdout = NoValue

\* the sample schema was documented twice, at two readings of the clock
C12_Witness ==
    /\ pc = "done"
    /\ Len(earlier) = 1
    /\ run.file = ValidFile(Sample)
    /\ run.schema_version = None
    /\ earlier[1].stdout # stdout
    /\ Len(stdout) > 1
    /\ Timeless(earlier[1].stdout) = Timeless(stdout)

(***************************************************************************)
(* C13                                                                     *)
(***************************************************************************)
\* the named types a type reaches through arrays and unions of any depth, and
\* through maps too if maps is TRUE
RECURSIVE NamedUnder(_, _)
NamedUnder(t, maps) ==
    IF "fullname" \in DOMAIN t THEN {t.fullname}
    ELSE IF "items" \in DOMAIN t THEN NamedUnder(t.items, maps)
    ELSE IF "schemas" \in DOMAIN t
         THEN UNION {NamedUnder(t.schemas[b], maps) : b \in 1..Len(t.schemas)}
    ELSE IF "values" \in DOMAIN t /\ maps THEN NamedUnder(t.values, maps)
    ELSE {}

\* the named types a type reaches: anywhere; under arrays and unions alone;
\* one level down at most (the type itself, the items of an array, the
\* branches of a union); under a map or two levels or more down, and no other
\* way
Reached(t) == NamedUnder(t, TRUE)
ReachedByArraysAndUnions(t) == NamedUnder(t, FALSE)
ReachedOneLevel(t) ==
    LET named(u) == IF "fullname" \in DOMAIN u THEN {u.fullname} ELSE {} IN
    IF "items" \in DOMAIN t THEN named(t.items)
    ELSE IF "schemas" \in DOMAIN t THEN UNION {named(t.schemas[b]) : b \in 1..Len(t.schemas)}
    ELSE named(t)
ReachedDeepOnly(t) == Reached(t) \ ReachedOneLevel(t)

\* C13: a named type that the fields of a record reach only through a map or
\* two levels or more of arrays and unions gives no edge from the record; the
\* type cell of a field still holds the hyperlink to every named type its
\* type reaches through arrays and unions alone, however deep.
C13_OneLevelEdgesDeepLinks ==
    Rendered =>
        \A k \in RecordsOf(names) :
            LET fields == names[k].fields
                deep_only == (UNION {ReachedDeepOnly(fields[i].type) : i \in 1..Len(fields)})
                             \ (UNION {ReachedOneLevel(fields[i].type) : i \in 1..Len(fields)})
            IN /\ \A n \in deep_only : <<names[k].fullname, n>> \notin Range(edges)
               /\ \A i \in 1..Len(fields) :
                     \A n \in ReachedByArraysAndUnions(fields[i].type) :
                        <<"#" \o n, n>> \in
                            Range(TypeLinks(TypeCell(RowsOf(SectionsOf(document)[k])[i])))

\* a record whose field is an array of unions with a named branch was
\* rendered: no edge, and the hyperlink in the type cell
C13_Witness ==
    /\ pc = "done"
    /\ edges = <<>>
    /\ \E k \in {j \in RecordsOf(names) : Len(names[j].fields) > 0} :
          LET t == names[k].fields[1].type IN
          /\ "items" \in DOMAIN t
          /\ "schemas" \in DOMAIN t.items
          /\ ReachedDeepOnly(t) = {"ns.A"}
          /\ ReachedOneLevel(t) = {}
          /\ <<"#ns.A", "ns.A">> \in
                Range(TypeLinks(TypeCell(RowsOf(SectionsOf(document)[k])[1])))
====
